---- MODULE Spec2Model ----
(***************************************************************************)
(* Model of the JMeter / Swagger utilities:                                *)
(*   analyze-diff-jmx-vs-swagger.py  (path normaliser, JMX extractor,      *)
(*                                    comparator)                          *)
(*   generate-jmx-from-swagger.py    (JMX generator and its script)        *)
(* Strings whose characters matter (paths, XML text) are tuples of         *)
(* one-character strings, so that the regular-expression substitution and  *)
(* str.strip() are computed character by character.                        *)
(***************************************************************************)
EXTENDS Integers, Sequences, FiniteSets, TLC

VARIABLES
    pc,                     \* position of the running script / function
    path,                   \* argument of jmeter_path_to_swagger_style
    normalized,             \* its result
    jmeter_endpoints,       \* compare_endpoints: list of load-test endpoints
    swagger_endpoints_set,  \* compare_endpoints: set of <<METHOD, path>>
    matched_in_jmeter,      \* compare_endpoints: first returned list
    missing_in_swagger,     \* second returned list
    missing_in_jmeter,      \* third returned list
    duplicates,             \* fourth returned list
    jmx_document,           \* parse_jmeter_endpoints: the .jmx document
    parse_result,           \* what parse_jmeter_endpoints returned or raised
    argv_len,               \* generator script: len(sys.argv)
    file_exists,            \* os.path.exists(swagger_file)
    file_content,           \* what the spec file holds
    swagger_data,           \* the loaded spec document
    output_file,            \* generated_test_plan.jmx on disk
    stdout,                 \* the lines printed so far
    exit_status,            \* exit status of the script once it ended
    uncaught                \* the exception that ended the script, if any

normVars == <<path, normalized>>
cmpVars == <<jmeter_endpoints, swagger_endpoints_set, matched_in_jmeter,
             missing_in_swagger, missing_in_jmeter, duplicates>>

parseVars == <<jmx_document, parse_result>>

genVars == <<argv_len, file_exists, file_content, swagger_data, output_file,
             stdout, exit_status, uncaught>>

vars == <<pc, normVars, cmpVars, parseVars, genVars>>

\* A spec document: has_paths says whether the "paths" key is present,
\* paths lists its items in the order of the JSON object, servers is the
\* list under "servers" (empty when the key is absent).
EmptyDoc == [has_paths |-> FALSE, paths |-> <<>>, servers |-> <<>>]

\* Values of the variables of the units that are not running.
IdleGen ==
    /\ argv_len = 0
    /\ file_exists = FALSE
    /\ file_content = [parses |-> FALSE, doc |-> EmptyDoc]
    /\ swagger_data = [loaded |-> FALSE, doc |-> EmptyDoc]
    /\ output_file = [state |-> "absent"]
    /\ stdout = <<>>
    /\ exit_status = -1
    /\ uncaught = "none"
IdleNorm == path = <<>> /\ normalized = <<>>
IdleParse ==
    /\ jmx_document = [well_formed |-> TRUE, samplers |-> <<>>]
    /\ parse_result = [raised |-> "not called", endpoints |-> <<>>]
IdleCmp ==
    /\ jmeter_endpoints = <<>>
    /\ swagger_endpoints_set = {}
    /\ matched_in_jmeter = <<>>
    /\ missing_in_swagger = <<>>
    /\ missing_in_jmeter = <<>>
    /\ duplicates = <<>>

----------------------------------------------------------------------------
(* Bounds and alphabets *)

MaxPathTokens == 6
MaxEndpoints == 3
MaxSamplers == 2
MaxOps == 2

\* A path is built from single characters and the placeholder opener "${".
PathTokens == {<<"$">>, <<"{">>, <<"}">>, <<"a">>, <<"$", "{">>}

\* Every concatenation of at most n tokens.
RECURSIVE PathsUpTo(_)
PathsUpTo(n) ==
    IF n = 0 THEN {<<>>}
    ELSE LET shorter == PathsUpTo(n - 1)
         IN  shorter \cup {s \o t : s \in shorter, t \in PathTokens}

----------------------------------------------------------------------------
(* jmeter_path_to_swagger_style: re.sub(r'\$\{([^\}]+)\}', r'{\1}', path) *)

\* Smallest index k >= j with p[k] = "}", or 0 when there is none.
RECURSIVE FirstClose(_, _)
FirstClose(p, j) ==
    IF j > Len(p) THEN 0
    ELSE IF p[j] = "}" THEN j
    ELSE FirstClose(p, j + 1)

\* Index of the closing brace of the match of \$\{([^\}]+)\} that starts at i,
\* or 0 when the pattern does not match at i.  [^\}]+ is greedy and cannot
\* cross a "}", so the match ends at the first "}" after a non-empty name.
MatchEnd(p, i) ==
    IF /\ i + 2 <= Len(p)
       /\ p[i] = "$"
       /\ p[i + 1] = "{"
       /\ p[i + 2] # "}"
    THEN FirstClose(p, i + 3)
    ELSE 0

\* re.sub scanning from index i: leftmost match first, matches do not
\* overlap, unmatched characters are copied.
RECURSIVE re_sub(_, _)
re_sub(p, i) ==
    IF i > Len(p) THEN <<>>
    ELSE LET e == MatchEnd(p, i)
         IN  IF e # 0
             THEN <<"{">> \o SubSeq(p, i + 2, e - 1) \o <<"}">> \o re_sub(p, e + 1)
             ELSE <<p[i]>> \o re_sub(p, i + 1)

\* Variant: the name may be empty ([^\}]* instead of [^\}]+).
MatchEndEmptyName(p, i) ==
    IF /\ i + 1 <= Len(p)
       /\ p[i] = "$"
       /\ p[i + 1] = "{"
    THEN FirstClose(p, i + 2)
    ELSE 0

RECURSIVE re_sub_empty_name(_, _)
re_sub_empty_name(p, i) ==
    IF i > Len(p) THEN <<>>
    ELSE LET e == MatchEndEmptyName(p, i)
         IN  IF e # 0
             THEN <<"{">> \o SubSeq(p, i + 2, e - 1) \o <<"}">> \o re_sub_empty_name(p, e + 1)
             ELSE <<p[i]>> \o re_sub_empty_name(p, i + 1)

normalize_empty_name(p) == re_sub_empty_name(p, 1)

\* Variant: only the first match is replaced (re.sub(..., count=1)).
RECURSIVE re_sub_first(_, _)
re_sub_first(p, i) ==
    IF i > Len(p) THEN <<>>
    ELSE LET e == MatchEnd(p, i)
         IN  IF e # 0
             THEN <<"{">> \o SubSeq(p, i + 2, e - 1) \o <<"}">> \o SubSeq(p, e + 1, Len(p))
             ELSE <<p[i]>> \o re_sub_first(p, i + 1)

normalize_first_only(p) == re_sub_first(p, 1)

jmeter_path_to_swagger_style(p) == re_sub(p, 1)

----------------------------------------------------------------------------
(* Normaliser specification: jmeter_path_to_swagger_style is applied to    *)
(* every path of at most MaxPathTokens tokens.                            *)

InitNorm ==
    /\ pc = "norm_call"
    /\ path \in PathsUpTo(MaxPathTokens)
    /\ normalized = <<>>
    /\ IdleCmp
    /\ IdleParse
    /\ IdleGen

Normalize ==
    /\ pc = "norm_call"
    /\ normalized' = jmeter_path_to_swagger_style(path)
    /\ pc' = "norm_done"
    /\ UNCHANGED <<path, cmpVars, parseVars, genVars>>

NextNorm == Normalize

SpecNorm == InitNorm /\ [][NextNorm]_vars

----------------------------------------------------------------------------
(* compare_endpoints                                                       *)

\* Lines 84-85: the (method, normalised path) combo of one endpoint.
\* Variant: the path is compared as written, without normalisation.
combo_raw(ep) == <<ep.method, ep.path>>

combo_of(ep) == <<ep.method, jmeter_path_to_swagger_style(ep.path)>>

\* Line 89: `combo in swagger_endpoints_set`.
\* Variant: the test is inverted.
in_swagger_inverted(combo, sset) == combo \notin sset

in_swagger(combo, sset) == combo \in sset

\* Lines 83-92: one pass over the list, appending each endpoint to matched
\* or to missing, and its combo to jmeter_combos.
RECURSIVE classify_loop(_, _, _, _)
classify_loop(eps, sset, i, acc) ==
    IF i > Len(eps) THEN acc
    ELSE LET ep == eps[i]
             combo == combo_of(ep)
         IN  classify_loop(eps, sset, i + 1,
                 [jmeter_combos |-> Append(acc.jmeter_combos, combo),
                  matched |-> IF in_swagger(combo, sset)
                              THEN Append(acc.matched, ep) ELSE acc.matched,
                  missing |-> IF in_swagger(combo, sset)
                              THEN acc.missing ELSE Append(acc.missing, ep)])

\* Line 95: set(jmeter_combos).
\* Variant: the last combo is left out (jmeter_combos[:-1]).
jmeter_set_but_last(combos) == {combos[i] : i \in 1..(Len(combos) - 1)}

jmeter_set_of(combos) == {combos[i] : i \in 1..Len(combos)}

\* Lines 96-99: the spec pairs, in the order the set is iterated, that are
\* not in jmeter_set.
RECURSIVE missing_loop(_, _, _)
missing_loop(order, jset, i) ==
    IF i > Len(order) THEN <<>>
    ELSE IF order[i] \notin jset
         THEN <<[method |-> order[i][1], path |-> order[i][2]]>>
                  \o missing_loop(order, jset, i + 1)
         ELSE missing_loop(order, jset, i + 1)

\* Line 105: combo_count[combo] = combo_count.get(combo, 0) + 1.  The dict
\* is a list of [combo, cnt] entries in insertion order.
\* Variant: a new key starts at .get(combo, 1) + 1.
count_add_from_one(counts, combo) ==
    IF \E k \in 1..Len(counts) : counts[k].combo = combo
    THEN [k \in 1..Len(counts) |->
             IF counts[k].combo = combo
             THEN [combo |-> combo, cnt |-> counts[k].cnt + 1]
             ELSE counts[k]]
    ELSE Append(counts, [combo |-> combo, cnt |-> 2])

count_add(counts, combo) ==
    IF \E k \in 1..Len(counts) : counts[k].combo = combo
    THEN [k \in 1..Len(counts) |->
             IF counts[k].combo = combo
             THEN [combo |-> combo, cnt |-> counts[k].cnt + 1]
             ELSE counts[k]]
    ELSE Append(counts, [combo |-> combo, cnt |-> 1])

\* Lines 103-105.
RECURSIVE count_loop(_, _, _)
count_loop(combos, i, counts) ==
    IF i > Len(combos) THEN counts
    ELSE count_loop(combos, i + 1, count_add(counts, combos[i]))

\* Lines 107-115: one record for every entry whose count exceeds 1.
RECURSIVE duplicates_loop(_, _)
duplicates_loop(counts, k) ==
    IF k > Len(counts) THEN <<>>
    ELSE IF counts[k].cnt > 1
         THEN <<[method |-> counts[k].combo[1], path |-> counts[k].combo[2],
                 count |-> counts[k].cnt]>> \o duplicates_loop(counts, k + 1)
         ELSE duplicates_loop(counts, k + 1)

\* The four returned lists; order is the order in which the spec set is
\* iterated at line 97.
compare_endpoints(eps, sset, order) ==
    LET c == classify_loop(eps, sset, 1,
                 [jmeter_combos |-> <<>>, matched |-> <<>>, missing |-> <<>>])
    IN  [matched_in_jmeter |-> c.matched,
         missing_in_swagger |-> c.missing,
         missing_in_jmeter |-> missing_loop(order, jmeter_set_of(c.jmeter_combos), 1),
         duplicates |-> duplicates_loop(count_loop(c.jmeter_combos, 1, <<>>), 1)]

Methods == {"GET", "POST"}

\* Paths of load-test endpoints: /${a}, /{a} and /b.
JmeterPaths ==
    {<<"/", "$", "{", "a", "}">>, <<"/", "{", "a", "}">>, <<"/", "b">>}

\* Paths of the spec: /{a} and /b.
SwaggerPaths == {<<"/", "{", "a", "}">>, <<"/", "b">>}

Endpoints == [method : Methods, path : JmeterPaths, label : {"No Label"}]

RECURSIVE ListsUpTo(_, _)
ListsUpTo(S, n) ==
    IF n = 0 THEN {<<>>}
    ELSE LET shorter == ListsUpTo(S, n - 1)
         IN  shorter \cup {Append(l, x) : l \in {m \in shorter : Len(m) = n - 1}, x \in S}

\* The orders in which a set can be iterated.
Orders(S) ==
    {o \in [1..Cardinality(S) -> S] : \A x \in S : \E i \in DOMAIN o : o[i] = x}

InitCompare ==
    /\ pc = "compare_call"
    /\ jmeter_endpoints \in ListsUpTo(Endpoints, MaxEndpoints)
    /\ swagger_endpoints_set \in SUBSET (Methods \X SwaggerPaths)
    /\ matched_in_jmeter = <<>>
    /\ missing_in_swagger = <<>>
    /\ missing_in_jmeter = <<>>
    /\ duplicates = <<>>
    /\ IdleNorm
    /\ IdleParse
    /\ IdleGen

Compare ==
    /\ pc = "compare_call"
    /\ \E order \in Orders(swagger_endpoints_set) :
          LET r == compare_endpoints(jmeter_endpoints, swagger_endpoints_set, order)
          IN  /\ matched_in_jmeter' = r.matched_in_jmeter
              /\ missing_in_swagger' = r.missing_in_swagger
              /\ missing_in_jmeter' = r.missing_in_jmeter
              /\ duplicates' = r.duplicates
    /\ pc' = "compare_done"
    /\ UNCHANGED <<jmeter_endpoints, swagger_endpoints_set, normVars, parseVars, genVars>>

NextCompare == Compare

SpecCompare == InitCompare /\ [][NextCompare]_vars

----------------------------------------------------------------------------
(* parse_jmeter_endpoints                                                  *)

\* A child field of a sampler node: no such child (find returns None), a
\* child without text (its .text is None), or a child with text.
Absent == <<"absent">>
NoText == <<"None">>

Whitespace == {" ", "\n", "\t"}

\* str.strip(): leading and trailing whitespace removed.
RECURSIVE lstrip(_)
lstrip(t) ==
    IF Len(t) > 0 /\ t[1] \in Whitespace THEN lstrip(Tail(t)) ELSE t

RECURSIVE rstrip(_)
rstrip(t) ==
    IF Len(t) > 0 /\ t[Len(t)] \in Whitespace
    THEN rstrip(SubSeq(t, 1, Len(t) - 1)) ELSE t

strip(t) == rstrip(lstrip(t))

\* Lines 35-40 for one sampler: the endpoint appended, a skip when the
\* method or the path child is missing, or the AttributeError raised by
\* None.strip() on a child without text.
sampler_endpoint(sampler) ==
    IF sampler.method # Absent /\ sampler.path # Absent
    THEN IF \/ sampler.method = NoText
            \/ sampler.path = NoText
            \/ sampler.label = NoText
         THEN [kind |-> "raise"]
         ELSE [kind |-> "append",
               ep |-> [method |-> strip(sampler.method),
                       path |-> strip(sampler.path),
                       label |-> IF sampler.label # Absent
                                 THEN strip(sampler.label)
                                 ELSE <<"N", "o", " ", "L", "a", "b", "e", "l">>]]
    ELSE [kind |-> "skip"]

\* Lines 28-40: the samplers in document order.
RECURSIVE sampler_loop(_, _, _)
sampler_loop(samplers, i, acc) ==
    IF i > Len(samplers) THEN [raised |-> "none", endpoints |-> acc]
    ELSE LET r == sampler_endpoint(samplers[i])
         IN  IF r.kind = "raise"
             THEN [raised |-> "AttributeError", endpoints |-> <<>>]
             ELSE IF r.kind = "skip" THEN sampler_loop(samplers, i + 1, acc)
             ELSE sampler_loop(samplers, i + 1, Append(acc, r.ep))

\* The list returned, or the exception that leaves the function: ET.parse
\* raises ParseError on a document that is not well-formed XML.
parse_jmeter_endpoints(doc) ==
    IF ~ doc.well_formed THEN [raised |-> "ParseError", endpoints |-> <<>>]
    ELSE sampler_loop(doc.samplers, 1, <<>>)

MethodTexts == {<<"G", "E", "T">>, <<" ", "P", "O", "S", "T", "\n">>}
PathTexts == {<<"/", "a">>, <<" ", "/", "$", "{", "a", "}", " ">>}
LabelTexts == {<<"L">>}

Samplers ==
    [method : {Absent, NoText} \cup MethodTexts,
     path : {Absent, NoText} \cup PathTexts,
     label : {Absent, NoText} \cup LabelTexts]

InitParse ==
    /\ pc = "parse_call"
    /\ jmx_document \in
          {[well_formed |-> FALSE, samplers |-> <<>>]}
              \cup [well_formed : {TRUE}, samplers : ListsUpTo(Samplers, MaxSamplers)]
    /\ parse_result = [raised |-> "not called", endpoints |-> <<>>]
    /\ IdleNorm
    /\ IdleCmp
    /\ IdleGen

Parse ==
    /\ pc = "parse_call"
    /\ parse_result' = parse_jmeter_endpoints(jmx_document)
    /\ pc' = "parse_done"
    /\ UNCHANGED <<jmx_document, normVars, cmpVars, genVars>>

NextParse == Parse

SpecParse == InitParse /\ [][NextParse]_vars

----------------------------------------------------------------------------
(* generate-jmx-from-swagger.py                                            *)

\* A parameter object without "name" (or without "in") carries NoKey there.
NoKey == "<no key>"

\* str.upper() on the method keys of the model.
UpperChar(c) ==
    CASE c = "g" -> "G" [] c = "e" -> "E" [] c = "t" -> "T"
      [] c = "o" -> "O" [] c = "s" -> "S"
      [] OTHER -> c

upper(m) == [i \in 1..Len(m) |-> UpperChar(m[i])]

MethodKeys == {<<"g", "e", "t">>, <<"P", "o", "s", "t">>}
PathKeys == {"/a", "/b/{id}"}

QueryParam == [name |-> "q", in |-> "query"]
PathParam == [name |-> "id", in |-> "path"]
DefaultInParam == [name |-> "q", in |-> NoKey]
UnnamedParam == [name |-> NoKey, in |-> "query"]

\* The "parameters" lists of an operation (empty when the key is absent).
ParamLists ==
    {<<>>, <<QueryParam>>, <<PathParam>>, <<DefaultInParam>>, <<UnnamedParam>>,
     <<PathParam, QueryParam>>}

Operations == [method : MethodKeys, details : [parameters : ParamLists]]

\* The method maps of a path item with exactly n operations: the keys of a
\* JSON object are distinct and keep their order.
MethodMaps(n) ==
    {m \in [1..n -> Operations] :
        \A i, j \in 1..n : i # j => m[i].method # m[j].method}

\* The "paths" objects with at most MaxOps operations in all.
PathMaps ==
    {<<>>}
    \cup UNION {{<<[path |-> k, methods |-> m]>> : k \in PathKeys, m \in MethodMaps(i)} :
                   i \in 0..MaxOps}
    \cup UNION {UNION {{<<[path |-> ks[1], methods |-> m1], [path |-> ks[2], methods |-> m2]>> :
                           ks \in {kk \in PathKeys \X PathKeys : kk[1] # kk[2]},
                           m1 \in MethodMaps(i), m2 \in MethodMaps(j)} :
                       j \in 0..(MaxOps - i)} : i \in 0..MaxOps}

ServerLists == {<<>>, <<"https://api.example.com">>}

Docs ==
    [has_paths : {FALSE}, paths : {<<>>}, servers : ServerLists]
    \cup [has_paths : {TRUE}, paths : PathMaps, servers : ServerLists]

\* Lines 138-158: the lines printed and the URL returned.
extract_server_url(doc) ==
    IF doc.servers = <<>>
    THEN [prints |-> <<"No 'servers' section found in the Swagger JSON. Returning an empty string.">>,
          url |-> ""]
    ELSE [prints |-> <<"Extracted server URL: " \o doc.servers[1]>>,
          url |-> doc.servers[1]]

\* All operations of the document in the order of the nested loops over
\* paths.items() and methods.items(), each with its path.
RECURSIVE operations_of(_, _, _)
operations_of(paths, i, j) ==
    IF i > Len(paths) THEN <<>>
    ELSE IF j > Len(paths[i].methods) THEN operations_of(paths, i + 1, 1)
    ELSE <<[path |-> paths[i].path,
            method |-> paths[i].methods[j].method,
            details |-> paths[i].methods[j].details]>>
             \o operations_of(paths, i, j + 1)

\* Lines 42-47: param["name"] of every parameter; a parameter without
\* "name" raises KeyError.
RECURSIVE collect_names(_, _, _)
collect_names(params, k, names) ==
    IF k > Len(params) THEN [raised |-> "none", names |-> names]
    ELSE IF params[k].name = NoKey THEN [raised |-> "KeyError: 'name'", names |-> {}]
    ELSE collect_names(params, k + 1, names \cup {params[k].name})

RECURSIVE dynamic_vars_loop(_, _, _)
dynamic_vars_loop(ops, n, names) ==
    IF n > Len(ops) THEN [raised |-> "none", names |-> names]
    ELSE LET r == collect_names(ops[n].details.parameters, 1, names)
         IN  IF r.raised # "none" THEN r
             ELSE dynamic_vars_loop(ops, n + 1, r.names)

\* Lines 96-105: one HTTPArgument per parameter whose "in" is "query"
\* (the default when the key is absent), named "parameter" without "name".
RECURSIVE sampler_arguments(_, _)
sampler_arguments(params, k) ==
    IF k > Len(params) THEN <<>>
    ELSE LET param_name == IF params[k].name = NoKey THEN "parameter" ELSE params[k].name
             param_type == IF params[k].in = NoKey THEN "query" ELSE params[k].in
         IN  IF param_type = "query"
             THEN <<[name |-> param_name, value |-> "${" \o param_name \o "}"]>>
                      \o sampler_arguments(params, k + 1)
             ELSE sampler_arguments(params, k + 1)

\* Lines 82-93: the HTTPSamplerProxy node of one operation.
sampler_node(op) ==
    [testname |-> <<upper(op.method), " ", op.path>>,
     domain |-> "${HOSTNAME}",
     protocol |-> "https",
     port |-> "443",
     path |-> op.path,
     method |-> upper(op.method),
     arguments |-> sampler_arguments(op.details.parameters, 1)]

\* Lines 80-115: the sampler nodes in loop order.
samplers_loop(ops) == [n \in 1..Len(ops) |-> sampler_node(ops[n])]

\* Lines 14-132, the body of the try: the exception it raises, or the lines
\* it prints and the tree it writes to the file at line 131.
try_body(doc) ==
    IF ~ doc.has_paths
    THEN [raised |-> "Invalid Swagger JSON: 'paths' section missing.",
          prints |-> <<>>]
    ELSE LET ops == operations_of(doc.paths, 1, 1)
             dyn == dynamic_vars_loop(ops, 1, {})
             srv == extract_server_url(doc)
         IN  IF dyn.raised # "none"
             THEN [raised |-> "'name'", prints |-> <<>>]
             ELSE [raised |-> "none",
                   prints |-> srv.prints
                              \o <<"Using server URL as prefix to API endpoint: " \o srv.url,
                                   "JMX file generated successfully: generated_test_plan.jmx">>,
                   tree |-> [user_defined_variables |-> dyn.names,
                             samplers |-> samplers_loop(ops),
                             listeners |-> <<"View Results Tree", "Summary Report">>]]

\* Lines 134-135: `except Exception as e` prints the message and the
\* function returns; the file is left as it was.
\* Variant: only KeyError is caught, other exceptions leave the function.
except_key_error_only(body, out) ==
    IF body.raised = "'name'"
    THEN [prints |-> <<"Error generating JMX file: " \o body.raised>>,
          output_file |-> out, propagated |-> "none"]
    ELSE [prints |-> <<>>, output_file |-> out, propagated |-> body.raised]

except_handler(body, out) ==
    [prints |-> <<"Error generating JMX file: " \o body.raised>>,
     output_file |-> out,
     propagated |-> "none"]

\* The call generate_jmx_from_swagger(doc) with the output file in state
\* out: what is printed, the file afterwards, and the exception that
\* reaches the caller ("none" when the function returns).
generate_jmx_from_swagger(doc, out) ==
    LET body == try_body(doc)
    IN  IF body.raised # "none"
        THEN except_handler(body, out)
        ELSE [prints |-> body.prints,
              output_file |-> [state |-> "written", tree |-> body.tree],
              propagated |-> "none"]

UsageLine == "Usage: python generate_jmx_from_swagger.py <swagger_json_file>"
NoFileLine == "Error: File does not exist."

\* The script is started with or without its argument; the argument names
\* a file that may not exist, may not parse, or holds a spec document.
InitGen ==
    /\ pc = "main_args"
    /\ \/ /\ argv_len \in {1, 3}
          /\ file_exists = FALSE
          /\ file_content = [parses |-> FALSE, doc |-> EmptyDoc]
       \/ /\ argv_len = 2
          /\ file_exists = FALSE
          /\ file_content = [parses |-> FALSE, doc |-> EmptyDoc]
       \/ /\ argv_len = 2
          /\ file_exists = TRUE
          /\ file_content \in
                {[parses |-> FALSE, doc |-> EmptyDoc]} \cup [parses : {TRUE}, doc : Docs]
    /\ swagger_data = [loaded |-> FALSE, doc |-> EmptyDoc]
    /\ output_file \in {[state |-> "absent"], [state |-> "old"]}
    /\ stdout = <<>>
    /\ exit_status = -1
    /\ uncaught = "none"
    /\ IdleNorm
    /\ IdleCmp
    /\ IdleParse

\* Lines 162-164.
MainUsage ==
    /\ pc = "main_args"
    /\ argv_len # 2
    /\ stdout' = Append(stdout, UsageLine)
    /\ exit_status' = 1
    /\ pc' = "exited"
    /\ UNCHANGED <<argv_len, file_exists, file_content, swagger_data, output_file,
                   uncaught, normVars, cmpVars, parseVars>>

\* Lines 162, 166.
MainArgsOk ==
    /\ pc = "main_args"
    /\ argv_len = 2
    /\ pc' = "main_exists"
    /\ UNCHANGED <<genVars, normVars, cmpVars, parseVars>>

\* Lines 168-170.
MainNoFile ==
    /\ pc = "main_exists"
    /\ ~ file_exists
    /\ stdout' = Append(stdout, NoFileLine)
    /\ exit_status' = 1
    /\ pc' = "exited"
    /\ UNCHANGED <<argv_len, file_exists, file_content, swagger_data, output_file,
                   uncaught, normVars, cmpVars, parseVars>>

\* Lines 168, 173.
MainFileOk ==
    /\ pc = "main_exists"
    /\ file_exists
    /\ pc' = "main_load"
    /\ UNCHANGED <<genVars, normVars, cmpVars, parseVars>>

\* Lines 173-174, json.load raising JSONDecodeError: nothing in the script
\* catches it, the interpreter prints the traceback and exits with 1.
MainLoadFails ==
    /\ pc = "main_load"
    /\ ~ file_content.parses
    /\ uncaught' = "JSONDecodeError"
    /\ exit_status' = 1
    /\ pc' = "exited"
    /\ UNCHANGED <<argv_len, file_exists, file_content, swagger_data, output_file,
                   stdout, normVars, cmpVars, parseVars>>

\* Lines 173-174, json.load returning the document.
MainLoadOk ==
    /\ pc = "main_load"
    /\ file_content.parses
    /\ swagger_data' = [loaded |-> TRUE, doc |-> file_content.doc]
    /\ pc' = "main_generate"
    /\ UNCHANGED <<argv_len, file_exists, file_content, output_file, stdout,
                   exit_status, uncaught, normVars, cmpVars, parseVars>>

\* Line 177 and the end of the script.
MainGenerate ==
    /\ pc = "main_generate"
    /\ LET r == generate_jmx_from_swagger(swagger_data.doc, output_file)
       IN  /\ stdout' = stdout \o r.prints
           /\ output_file' = r.output_file
           /\ uncaught' = r.propagated
           /\ exit_status' = IF r.propagated = "none" THEN 0 ELSE 1
    /\ pc' = "exited"
    /\ UNCHANGED <<argv_len, file_exists, file_content, swagger_data,
                   normVars, cmpVars, parseVars>>

NextGen ==
    \/ MainUsage
    \/ MainArgsOk
    \/ MainNoFile
    \/ MainFileOk
    \/ MainLoadFails
    \/ MainLoadOk
    \/ MainGenerate

SpecGen == InitGen /\ [][NextGen]_vars

----------------------------------------------------------------------------
(* Placeholder occurrences, stated on the text of the path alone.          *)

\* A `${name}` occurrence starts at i and closes at e: "$", "{", a name of
\* one or more characters other than "}", then "}".
IsOccurrence(p, i, e) ==
    /\ i >= 1
    /\ e <= Len(p)
    /\ e >= i + 3
    /\ p[i] = "$"
    /\ p[i + 1] = "{"
    /\ p[e] = "}"
    /\ \A k \in (i + 2)..(e - 1) : p[k] # "}"

OccurrenceStarts(p) ==
    {i \in 1..Len(p) : \E e \in 1..Len(p) : IsOccurrence(p, i, e)}

\* Starts of the occurrences that do not lie inside another occurrence.
OutermostStarts(p) ==
    {i \in OccurrenceStarts(p) :
        ~ \E j \in 1..(i - 1) : \E e \in (i + 1)..Len(p) : IsOccurrence(p, j, e)}

\* p without the characters at the positions in drop.
DeleteAt(p, drop) ==
    LET keep == {i \in 1..Len(p) : i \notin drop}
        nth(k) == CHOOSE i \in keep : Cardinality({j \in keep : j <= i}) = k
    IN  [k \in 1..Cardinality(keep) |-> p[nth(k)]]

\* C4 (as stated): every `${name}` occurrence of the path is rewritten to
\* `{name}`, i.e. the result is the path with the "$" of every occurrence
\* removed and every other character kept in place.
C4_EveryOccurrenceReplaced ==
    pc = "norm_done" => normalized = DeleteAt(path, OccurrenceStarts(path))

\* C4 (amended): the result is the path with the "$" removed from every
\* `${name}` occurrence that is not inside another occurrence, every other
\* character unchanged; a path without occurrences is returned unchanged.
C4_OutermostOccurrencesReplaced ==
    pc = "norm_done" =>
        /\ normalized = DeleteAt(path, OutermostStarts(path))
        /\ (OccurrenceStarts(path) = {} => normalized = path)

\* C4 witness: a path with an occurrence nested in another one was
\* normalised, and only the outer "$" is gone.
C4_Witness ==
    /\ pc = "norm_done"
    /\ path = <<"$", "{", "$", "{", "a", "}">>
    /\ normalized = <<"{", "$", "{", "a", "}">>

\* C5 (as stated): the result of the normaliser is a fixed point of the
\* normaliser, for every path.
C5_Idempotent ==
    pc = "norm_done" => jmeter_path_to_swagger_style(normalized) = normalized

\* Every "$" of p begins an occurrence that is not inside another one.
EveryDollarBeginsPlaceholder(p) ==
    \A i \in 1..Len(p) : p[i] = "$" => i \in OutermostStarts(p)

\* C5 (amended): for a path in which every "$" begins a `${name}`
\* occurrence that is not inside another occurrence (so also for every
\* path without "$"), normalising the result again changes nothing.
C5_IdempotentOnPlainPlaceholders ==
    (pc = "norm_done" /\ EveryDollarBeginsPlaceholder(path)) =>
        jmeter_path_to_swagger_style(normalized) = normalized

\* C5 witness: a path with two placeholders was normalised.
C5_Witness ==
    /\ pc = "norm_done"
    /\ path = <<"$", "{", "a", "}", "$", "{", "a", "}">>
    /\ EveryDollarBeginsPlaceholder(path)
    /\ normalized = <<"{", "a", "}", "{", "a", "}">>

----------------------------------------------------------------------------
(* Claims about compare_endpoints                                          *)

\* The (method, normalised path) pair of a load-test endpoint.
NormPair(ep) == <<ep.method, jmeter_path_to_swagger_style(ep.path)>>

\* The positions of the input list whose pair is in the spec set.
InSpecPositions ==
    {i \in 1..Len(jmeter_endpoints) :
        NormPair(jmeter_endpoints[i]) \in swagger_endpoints_set}

\* How many list positions carry pair c.
Occurrences(c) ==
    Cardinality({i \in 1..Len(jmeter_endpoints) : NormPair(jmeter_endpoints[i]) = c})

\* Every pair a load-test endpoint or the spec can carry.
AllPairs ==
    Methods \X ({jmeter_path_to_swagger_style(q) : q \in JmeterPaths} \cup SwaggerPaths)

\* C1: matched_in_jmeter and missing_in_swagger partition the load-test list
\* by position: matched holds exactly the occurrences whose (method,
\* normalised path) is in the spec set, missing_in_swagger all the others,
\* so the two lengths add up to the length of the input.
C1_Partition ==
    pc = "compare_done" =>
        /\ Len(matched_in_jmeter) + Len(missing_in_swagger) = Len(jmeter_endpoints)
        /\ matched_in_jmeter =
              DeleteAt(jmeter_endpoints, (1..Len(jmeter_endpoints)) \ InSpecPositions)
        /\ missing_in_swagger = DeleteAt(jmeter_endpoints, InSpecPositions)

\* C1 witness: a list of three entries was split into two matched entries
\* (one of them written /${a}) and one entry missing in the spec.
C1_Witness ==
    /\ pc = "compare_done"
    /\ Len(jmeter_endpoints) = 3
    /\ Len(matched_in_jmeter) = 2
    /\ Len(missing_in_swagger) = 1
    /\ \E i \in 1..2 : matched_in_jmeter[i].path = <<"/", "$", "{", "a", "}">>

\* C2: missing_in_jmeter holds every spec pair that equals no (method,
\* normalised path) of the list exactly once, and nothing else.
C2_MissingInJmeter ==
    pc = "compare_done" =>
        /\ \A c \in AllPairs :
              Cardinality({k \in 1..Len(missing_in_jmeter) :
                              missing_in_jmeter[k] = [method |-> c[1], path |-> c[2]]})
                = IF c \in swagger_endpoints_set /\ Occurrences(c) = 0 THEN 1 ELSE 0
        /\ \A k \in 1..Len(missing_in_jmeter) :
              <<missing_in_jmeter[k].method, missing_in_jmeter[k].path>> \in AllPairs

\* C2 witness: of three spec pairs, the one covered by an endpoint written
\* /${a} is not reported and the two others are.
C2_Witness ==
    /\ pc = "compare_done"
    /\ Cardinality(swagger_endpoints_set) = 3
    /\ <<"GET", <<"/", "{", "a", "}">>>> \in swagger_endpoints_set
    /\ jmeter_endpoints =
          <<[method |-> "GET", path |-> <<"/", "$", "{", "a", "}">>, label |-> "No Label"]>>
    /\ Len(missing_in_jmeter) = 2

\* C3: duplicates holds one record for every pair carried by more than one
\* list entry, none for any other pair, and the record's count is the
\* number of entries carrying the pair.
C3_Duplicates ==
    pc = "compare_done" =>
        /\ \A c \in AllPairs :
              Cardinality({k \in 1..Len(duplicates) :
                              <<duplicates[k].method, duplicates[k].path>> = c})
                = IF Occurrences(c) > 1 THEN 1 ELSE 0
        /\ \A k \in 1..Len(duplicates) :
              /\ <<duplicates[k].method, duplicates[k].path>> \in AllPairs
              /\ duplicates[k].count
                    = Occurrences(<<duplicates[k].method, duplicates[k].path>>)

\* C3 witness: the example of the specification: two entries (GET, /${a})
\* against the spec pair (GET, /{a}).
C3_Witness ==
    /\ pc = "compare_done"
    /\ swagger_endpoints_set = {<<"GET", <<"/", "{", "a", "}">>>>}
    /\ jmeter_endpoints =
          <<[method |-> "GET", path |-> <<"/", "$", "{", "a", "}">>, label |-> "No Label"],
            [method |-> "GET", path |-> <<"/", "$", "{", "a", "}">>, label |-> "No Label"]>>
    /\ matched_in_jmeter = jmeter_endpoints
    /\ missing_in_swagger = <<>>
    /\ missing_in_jmeter = <<>>
    /\ duplicates = <<[method |-> "GET", path |-> <<"/", "{", "a", "}">>, count |-> 2]>>

\* C10: the pairs of the matched entries and the pairs reported in
\* missing_in_jmeter are disjoint and together make up the spec set.
C10_SpecCovered ==
    pc = "compare_done" =>
        LET matchedPairs ==
                {NormPair(matched_in_jmeter[i]) : i \in 1..Len(matched_in_jmeter)}
            missingPairs ==
                {<<missing_in_jmeter[k].method, missing_in_jmeter[k].path>> :
                    k \in 1..Len(missing_in_jmeter)}
        IN  /\ matchedPairs \cap missingPairs = {}
            /\ matchedPairs \cup missingPairs = swagger_endpoints_set

\* C10 witness: a spec of two pairs, one covered by a matched endpoint
\* written /${a}, the other reported missing, with one endpoint unknown to
\* the spec.
C10_Witness ==
    /\ pc = "compare_done"
    /\ Cardinality(swagger_endpoints_set) = 2
    /\ Len(matched_in_jmeter) = 1
    /\ matched_in_jmeter[1].path = <<"/", "$", "{", "a", "}">>
    /\ Len(missing_in_jmeter) = 1
    /\ Len(missing_in_swagger) = 1

----------------------------------------------------------------------------
(* Claims about parse_jmeter_endpoints                                     *)

\* The positions of the samplers that have a method and a path child.
CompletePositions ==
    {i \in 1..Len(jmx_document.samplers) :
        /\ jmx_document.samplers[i].method # Absent
        /\ jmx_document.samplers[i].path # Absent}

\* C9: for a well-formed document the function completes and returns a
\* list with one endpoint per sampler that has a method and a path child,
\* in document order; samplers missing one of them are skipped without
\* failure, and a sampler without label child gets the default label.
C9_OneEndpointPerCompleteSampler ==
    (pc = "parse_done" /\ jmx_document.well_formed) =>
        /\ parse_result.raised = "none"
        /\ Len(parse_result.endpoints) = Cardinality(CompletePositions)
        /\ \A k \in 1..Cardinality(CompletePositions) :
              LET i == CHOOSE j \in CompletePositions :
                           Cardinality({m \in CompletePositions : m <= j}) = k
                  node == jmx_document.samplers[i]
              IN  /\ node.method # NoText =>
                         parse_result.endpoints[k].method = strip(node.method)
                  /\ node.path # NoText =>
                         parse_result.endpoints[k].path = strip(node.path)
                  /\ node.label = Absent =>
                         parse_result.endpoints[k].label
                             = <<"N", "o", " ", "L", "a", "b", "e", "l">>

----------------------------------------------------------------------------
(* Claims about the generator                                              *)

\* The (path, method) pairs of the loaded document, in document order.
RECURSIVE SpecPairs(_, _)
SpecPairs(paths, i) ==
    IF i > Len(paths) THEN <<>>
    ELSE [j \in 1..Len(paths[i].methods) |->
             [path |-> paths[i].path, method |-> paths[i].methods[j].method]]
         \o SpecPairs(paths, i + 1)

\* C6: for a document that contains "paths", the generator emits exactly
\* one HTTPSamplerProxy node per (path, method) pair of the document, with
\* the method upper-cased and the path copied verbatim.
C6_OneSamplerPerPair ==
    (pc = "exited" /\ swagger_data.loaded /\ swagger_data.doc.has_paths) =>
        LET pairs == SpecPairs(swagger_data.doc.paths, 1)
        IN  /\ output_file.state = "written"
            /\ Len(output_file.tree.samplers) = Len(pairs)
            /\ \A k \in 1..Len(pairs) :
                  /\ output_file.tree.samplers[k].method = upper(pairs[k].method)
                  /\ output_file.tree.samplers[k].path = pairs[k].path

MissingPathsLine ==
    "Error generating JMX file: Invalid Swagger JSON: 'paths' section missing."

\* C7: called with a document without "paths", generate_jmx_from_swagger
\* prints the validation message and returns normally: no exception
\* reaches the caller, and the output file is left exactly as it was.
C7_MissingPathsCaught ==
    [][(pc = "main_generate" /\ ~ swagger_data.doc.has_paths) =>
          /\ pc' = "exited"
          /\ uncaught' = "none"
          /\ exit_status' = 0
          /\ stdout' = Append(stdout, MissingPathsLine)
          /\ output_file' = output_file]_vars

\* C7 witness: the script ran the generator on a document without "paths"
\* while an older output file existed; the message is printed and the file
\* is still the old one.
C7_Witness ==
    /\ pc = "exited"
    /\ swagger_data.loaded
    /\ ~ swagger_data.doc.has_paths
    /\ stdout = <<MissingPathsLine>>
    /\ output_file = [state |-> "old"]
    /\ exit_status = 0

\* C8: a spec file that exists but cannot be parsed ends in the
\* caught-and-printed outcome: an error line is printed and no exception
\* leaves the script.
C8_ParseFailureCaught ==
    (pc = "exited" /\ argv_len = 2 /\ file_exists /\ ~ file_content.parses) =>
        /\ uncaught = "none"
        /\ Len(stdout) > 0

====
